---------------------------- MODULE Spec2Model ----------------------------
(***************************************************************************)
(* Model of streamlit_cool_roof_pro.py: a Streamlit script that reads nine *)
(* sidebar widgets and computes the cooling-energy savings of a roof       *)
(* against a reference black roof, with a 20-year linear projection.       *)
(*                                                                         *)
(* The script's arithmetic is Python float arithmetic (IEEE-754 binary64,  *)
(* round-to-nearest-even).  TLC has 32-bit integers only, so a float is    *)
(* modelled here bit-exactly as sign / 53-bit significand / exponent, the  *)
(* significand being a natural number held in limbs of 15 bits.            *)
(***************************************************************************)
EXTENDS Integers, Sequences, FiniteSets, TLC

(***************************************************************************)
(* Natural numbers of any size: little-endian sequences of limbs in        *)
(* 0..Base-1, without high zero limbs; <<>> is 0.                          *)
(*                                                                         *)
(* An intermediate value that is used more than once is handed on as a     *)
(* parameter of a helper operator rather than named in a LET, so that it   *)
(* is written, and evaluated, once.                                        *)
(***************************************************************************)
Base == 2^15

Pow2Tab == <<1, 2, 4, 8, 16, 32, 64, 128, 256, 512, 1024, 2048, 4096, 8192,
             16384, 32768>>

Pow2(k) == Pow2Tab[k + 1]

Limb(a, i) == IF i >= 1 /\ i <= Len(a) THEN a[i] ELSE 0

Max(x, y) == IF x >= y THEN x ELSE y

Min(x, y) == IF x <= y THEN x ELSE y

RECURSIVE BTrim(_)
BTrim(a) ==
    IF a = <<>> THEN <<>>
    ELSE IF a[Len(a)] # 0 THEN a
    ELSE BTrim(SubSeq(a, 1, Len(a) - 1))

\* a natural number below 2^31 in limbs
BFromInt(n) == BTrim(<<n % Base, (n \div Base) % Base, n \div (Base * Base)>>)

\* the value of a natural number below 2^31 as an integer
BToInt(a) == Limb(a, 1) + Limb(a, 2) * Base + Limb(a, 3) * Base * Base

RECURSIVE BCmpR(_, _, _)
BCmpR(a, b, i) ==
    IF i = 0 THEN 0
    ELSE IF a[i] < b[i] THEN -1
    ELSE IF a[i] > b[i] THEN 1
    ELSE BCmpR(a, b, i - 1)

\* -1, 0, 1 as a < b, a = b, a > b
BCmp(a, b) ==
    IF Len(a) < Len(b) THEN -1
    ELSE IF Len(a) > Len(b) THEN 1
    ELSE BCmpR(a, b, Len(a))

\* a + b + c from limb i on, c the carry
RECURSIVE BAddR(_, _, _, _)
BAddR(a, b, i, c) ==
    IF i > Len(a) /\ i > Len(b)
    THEN IF c = 0 THEN <<>> ELSE <<c>>
    ELSE <<(Limb(a, i) + Limb(b, i) + c) % Base>>
         \o BAddR(a, b, i + 1, (Limb(a, i) + Limb(b, i) + c) \div Base)

BAdd(a, b) == BAddR(a, b, 1, 0)

\* a - b - c from limb i on, c the borrow
RECURSIVE BSubR(_, _, _, _)
BSubR(a, b, i, c) ==
    IF i > Len(a) THEN <<>>
    ELSE IF a[i] - Limb(b, i) - c < 0
    THEN <<a[i] - Limb(b, i) - c + Base>> \o BSubR(a, b, i + 1, 1)
    ELSE <<a[i] - Limb(b, i) - c>> \o BSubR(a, b, i + 1, 0)

\* a - b, for a >= b
BSub(a, b) == BTrim(BSubR(a, b, 1, 0))

RECURSIVE BMulSmallR(_, _, _, _)
BMulSmallR(a, k, i, c) ==
    IF i > Len(a)
    THEN IF c = 0 THEN <<>> ELSE <<c>>
    ELSE <<(a[i] * k + c) % Base>>
         \o BMulSmallR(a, k, i + 1, (a[i] * k + c) \div Base)

\* a * k, for 0 <= k < Base
BMulSmall(a, k) == IF k = 0 THEN <<>> ELSE BMulSmallR(a, k, 1, 0)

RECURSIVE BMulR(_, _, _)
BMulR(a, b, i) ==
    IF i > Len(b) THEN <<>>
    ELSE BAdd(BMulSmall(a, b[i]), <<0>> \o BMulR(a, b, i + 1))

BMul(a, b) == IF a = <<>> \/ b = <<>> THEN <<>> ELSE BTrim(BMulR(a, b, 1))

SmallBitLen(x) == CHOOSE k \in 0..15 : x < Pow2(k) /\ (k = 0 \/ x >= Pow2(k - 1))

BitLen(a) == IF a = <<>> THEN 0 ELSE 15 * (Len(a) - 1) + SmallBitLen(a[Len(a)])

\* a * 2^k followed by q zero limbs below, for 0 <= k < 15
BShlLimbs(a, q, k) ==
    [i \in 1..q |-> 0]
    \o BTrim([i \in 1..(Len(a) + 1) |->
                (Limb(a, i) % Pow2(15 - k)) * Pow2(k)
                + (Limb(a, i - 1) \div Pow2(15 - k))])

\* a * 2^n
BShl(a, n) == IF a = <<>> THEN <<>> ELSE BShlLimbs(a, n \div 15, n % 15)

\* floor(a / 2^k) without its q lowest limbs, for 0 <= k < 15
BShrLimbs(a, q, k) ==
    IF q >= Len(a) THEN <<>>
    ELSE BTrim([i \in 1..(Len(a) - q) |->
                  (a[i + q] \div Pow2(k))
                  + (Limb(a, i + q + 1) % Pow2(k)) * Pow2(15 - k)])

\* floor(a / 2^n)
BShr(a, n) == BShrLimbs(a, n \div 15, n % 15)

\* a mod 2^n # 0
BLowNonzero(a, n) ==
    \/ \E i \in 1..Len(a) : i <= n \div 15 /\ a[i] # 0
    \/ Limb(a, (n \div 15) + 1) % Pow2(n % 15) # 0

BOdd(a) == Limb(a, 1) % 2 = 1

\* bit i (0 = lowest) of a
BBit(a, i) == (Limb(a, (i \div 15) + 1) \div Pow2(i % 15)) % 2

RECURSIVE BFromDigitsR(_, _)
BFromDigitsR(d, i) ==
    IF i = 0 THEN <<>>
    ELSE BAdd(BMulSmall(BFromDigitsR(d, i - 1), 10), BFromInt(d[i]))

\* the natural number written with the decimal digits d
BFromDigits(d) == BTrim(BFromDigitsR(d, Len(d)))

RECURSIVE BPow10(_)
BPow10(k) == IF k = 0 THEN <<1>> ELSE BMulSmall(BPow10(k - 1), 10)

\* the largest digit q <= qh with b * q <= r
RECURSIVE BDigitFix(_, _, _)
BDigitFix(r, b, qh) ==
    IF BCmp(BMulSmall(b, qh), r) > 0 THEN BDigitFix(r, b, qh - 1) ELSE qh

\* the next quotient digit: the two top limbs of r by the top limb of b,
\* corrected downwards
BDigit(r, b) ==
    IF Len(r) < Len(b) THEN 0
    ELSE BDigitFix(r, b,
            Min(Base - 1, (Limb(r, Len(b) + 1) * Base + r[Len(b)]) \div b[Len(b)]))

\* long division, limb by limb from limb i of x down, for a divisor b whose
\* top limb is at least Base / 2: <<quotient, remainder>>
RECURSIVE BDivR(_, _, _, _, _)

\* the test only makes q and r be evaluated before the next step
BDivGo(x, b, i, q, r) ==
    IF Len(q) + Len(r) >= 0 THEN BDivR(x, b, i, q, r) ELSE <<q, r>>

BDivDigit(x, b, i, q, r, qh) ==
    BDivGo(x, b, i - 1, <<qh>> \o q, BSub(r, BMulSmall(b, qh)))

BDivStep(x, b, i, q, r) == BDivDigit(x, b, i, q, r, BDigit(r, b))

BDivR(x, b, i, q, r) ==
    IF i = 0 THEN <<BTrim(q), r>>
    ELSE BDivStep(x, b, i, q, BTrim(<<x[i]>> \o r))

BDivShifted(x, b, sh) == BDivR(x, BShl(b, sh), Len(x), <<>>, <<>>)

BDivUnshift(qr, sh) == <<qr[1], BShr(qr[2], sh)>>

BDivNorm(x, b, sh) == BDivUnshift(BDivShifted(BShl(x, sh), b, sh), sh)

\* <<floor(x / b), x mod b>>, for b # 0
BDivMod(x, b) == BDivNorm(x, b, 15 - SmallBitLen(b[Len(b)]))

(***************************************************************************)
(* Python floats.  A float is [s, m, e] with value (-1)^s * m * 2^e, where *)
(* m is 0 (then e = 0) or 2^52 <= m < 2^53.  The exponent is not bounded:  *)
(* the values of this program stay far from overflow and underflow.        *)
(***************************************************************************)
Precision == 53

FZero(s) == [s |-> s, m |-> <<>>, e |-> 0]

FIsZero(x) == x.m = <<>>

FPack(s, m, e) == [s |-> s, m |-> <<m[1], m[2], m[3], m[4]>>, e |-> e]

\* a significand of Precision or Precision + 1 bits brought to Precision bits
FNorm(s, q, e) ==
    IF BitLen(q) > Precision THEN FPack(s, BShr(q, 1), e + 1) ELSE FPack(s, q, e)

\* q rounded up when the dropped bits are more than half a unit, or exactly
\* half and q is odd
FRoundQ(s, q, e, half, rest) ==
    FNorm(s, IF half /\ (rest \/ BOdd(q)) THEN BAdd(q, <<1>>) ELSE q, e)

\* n with its sh lowest bits dropped (sh > 0), or shifted up by -sh
FRoundSh(s, n, e, sticky, sh) ==
    IF sh <= 0 THEN FPack(s, BShl(n, -sh), e + sh)
    ELSE FRoundQ(s, BShr(n, sh), e + sh, BBit(n, sh - 1) = 1,
                 sticky \/ BLowNonzero(n, sh - 1))

\* (-1)^s * n * 2^e rounded to nearest, ties to even, for n # 0; sticky says
\* that the exact value is a little above n * 2^e (and then n has >= 55 bits)
FRound(s, n, e, sticky) == FRoundSh(s, n, e, sticky, BitLen(n) - Precision)

\* int -> float, exact for |n| < 2^53
FromInt(n) ==
    IF n = 0 THEN FZero(0)
    ELSE FRound(IF n < 0 THEN 1 ELSE 0, BFromInt(IF n < 0 THEN -n ELSE n), 0, FALSE)

FromQuotient(s, qr, e) == FRound(s, qr[1], e, qr[2] # <<>>)

FromRatioSh(s, a, b, e, t) == FromQuotient(s, BDivMod(BShl(a, t), b), e - t)

\* (-1)^s * (a / b) * 2^e correctly rounded, for naturals a and b # 0
FromRatio(s, a, b, e) ==
    IF a = <<>> THEN FZero(s)
    ELSE FromRatioSh(s, a, b, e, Max(0, BitLen(b) + Precision + 2 - BitLen(a)))

\* the float a decimal literal or a typed decimal number denotes:
\* digits / 10^scale correctly rounded
FromDec(digits, scale) == FromRatio(0, BFromDigits(digits), BPow10(scale), 0)

FNeg(x) == [x EXCEPT !.s = 1 - x.s]

\* (-1)^sx * a * 2^e + (-1)^sy * b * 2^e, c being BCmp(a, b)
FAddAligned(sx, sy, a, b, e, c) ==
    IF sx # sy /\ c = 0 THEN FZero(0)
    ELSE FRound(IF sx = sy \/ c > 0 THEN sx ELSE sy,
                IF sx = sy THEN BAdd(a, b)
                ELSE IF c > 0 THEN BSub(a, b) ELSE BSub(b, a),
                e, FALSE)

FAddMags(sx, sy, a, b, e) == FAddAligned(sx, sy, a, b, e, BCmp(a, b))

\* float + float
FAdd(x, y) ==
    IF FIsZero(x) /\ FIsZero(y) THEN FZero(IF x.s = 1 /\ y.s = 1 THEN 1 ELSE 0)
    ELSE IF FIsZero(x) THEN y
    ELSE IF FIsZero(y) THEN x
    ELSE FAddMags(x.s, y.s, BShl(x.m, x.e - Min(x.e, y.e)),
                  BShl(y.m, y.e - Min(x.e, y.e)), Min(x.e, y.e))

\* float - float
FSub(x, y) == FAdd(x, FNeg(y))

\* float * float
FMul(x, y) ==
    IF FIsZero(x) \/ FIsZero(y) THEN FZero((x.s + y.s) % 2)
    ELSE FRound((x.s + y.s) % 2, BMul(x.m, y.m), x.e + y.e, FALSE)

\* float / float, for y # 0 (Python raises ZeroDivisionError for y = 0)
FDiv(x, y) == FromRatio((x.s + y.s) % 2, x.m, y.m, x.e - y.e)

\* x == y on floats (-0.0 == 0.0)
FEq(x, y) == (FIsZero(x) /\ FIsZero(y)) \/ x = y

\* |x| < |y|
FAbsLt(x, y) ==
    IF FIsZero(y) THEN FALSE
    ELSE IF FIsZero(x) THEN TRUE
    ELSE x.e < y.e \/ (x.e = y.e /\ BCmp(x.m, y.m) < 0)

\* x < y
FLt(x, y) ==
    IF FIsZero(x) /\ FIsZero(y) THEN FALSE
    ELSE IF FIsZero(x) THEN y.s = 0
    ELSE IF FIsZero(y) THEN x.s = 1
    ELSE IF x.s # y.s THEN x.s = 1
    ELSE IF x.s = 0 THEN FAbsLt(x, y)
    ELSE FAbsLt(y, x)

FLe(x, y) == FLt(x, y) \/ FEq(x, y)

\* q, plus one when the dropped bits are more than a half, or a half and q odd
FRoundIntQ(q, half, rest) ==
    BToInt(q) + (IF half /\ (rest \/ BOdd(q)) THEN 1 ELSE 0)

\* the integer nearest to |x|, ties to even (for |x| < 2^31)
FRoundIntAbs(x) ==
    IF FIsZero(x) \/ x.e < -(Precision + 1) THEN 0
    ELSE IF x.e >= 0 THEN BToInt(BShl(x.m, x.e))
    ELSE FRoundIntQ(BShr(x.m, -x.e), BBit(x.m, -x.e - 1) = 1,
                    BLowNonzero(x.m, -x.e - 1))

\* the integer "{x:,.0f}" prints
FRoundInt(x) == IF x.s = 1 THEN -FRoundIntAbs(x) ELSE FRoundIntAbs(x)

\* a decimal number n / 10^scale as the float Python reads it as
Dec(n, scale) == FromRatio(0, BFromInt(n), BPow10(scale), 0)

\* x is a finite float: what a Python name bound to a number holds
IsFloat(x) ==
    /\ x.s \in {0, 1}
    /\ \/ x.m = <<>> /\ x.e = 0
       \/ Len(x.m) = 4 /\ BitLen(x.m) = Precision

\* the value of a name the script has not assigned
Unset == [s |-> 0, m |-> <<0>>, e |-> 0]

(***************************************************************************)
(* The sidebar widgets (lines 13-48).                                      *)
(***************************************************************************)
RoofAreaMin == 50
RoofAreaMax == 50000
RoofAreaDefault == 1000
SolarLoadMin == 500
SolarLoadMax == 2500
SolarLoadDefault == 1248

RoofTypes == {"Papa/Bitumiczny", "Beton", "Blacha"}

defaults ==
    [t \in RoofTypes |->
        CASE t = "Papa/Bitumiczny" -> [SR |-> Dec(10, 2), eps |-> Dec(90, 2)]
          [] t = "Beton"           -> [SR |-> Dec(55, 2), eps |-> Dec(90, 2)]
          [] t = "Blacha"          -> [SR |-> Dec(70, 2), eps |-> Dec(85, 2)]]

AcLabels == {"Stary system (EER~9)", "Standardowy (EER~11)", "Nowoczesny (EER~13)"}

\* a variant of ac_map with an option for no cooling equipment
ac_map_WithZero ==
    [l \in AcLabels |->
        CASE l = "Stary system (EER~9)" -> 9
          [] l = "Standardowy (EER~11)" -> 11
          [] l = "Nowoczesny (EER~13)"  -> 0]

ac_map ==
    [l \in AcLabels |->
        CASE l = "Stary system (EER~9)" -> 9
          [] l = "Standardowy (EER~11)" -> 11
          [] l = "Nowoczesny (EER~13)"  -> 13]

\* a variant of NumberInputInt without min_value and max_value
NumberInputInt_NoBounds(v, lo, hi) == v

\* st.number_input with int bounds: the value the widget returns when v is
\* typed (a value outside the bounds does not get through; refusing it
\* altogether is a stuttering step)
NumberInputInt(v, lo, hi) == IF v < lo THEN lo ELSE IF v > hi THEN hi ELSE v

\* st.number_input with float bounds
NumberInput(v, lo, hi) == IF FLt(v, lo) THEN lo ELSE IF FLt(hi, v) THEN hi ELSE v

\* what a user may type or pick; the values outside a widget's bounds are
\* there to be refused
RoofAreaTyped == {0, 50, 2000, 60000}
SrTyped ==
    {Dec(0, 2), Dec(4, 2), FromDec(<<4,9,9,9,9,9,9,9,9,9,9,9,9,9,9,9,6>>, 18),
     Dec(5, 2), Dec(150, 2)}
EmissivityTyped == {Dec(0, 2), Dec(120, 2)}
SolarLoadTyped == {100, 3000}
FCoolValues == {Dec(1, 1), Dec(5, 1), Dec(10, 1)}
ElecPriceTyped == {Dec(10, 2), Dec(100, 2), Dec(250, 2)}
Co2FactorTyped == {Dec(5, 2), Dec(200, 2)}

(***************************************************************************)
(* The calculation (lines 51-64) on the values in of the widgets.          *)
(***************************************************************************)
\* a variant of sr_ref: the bituminous preset taken for the reference
sr_ref_AsBituminous == Dec(10, 2)

sr_ref == Dec(5, 2)
emissivity_ref == Dec(90, 2)
\* a variant of BtuPerWatt with two digits exchanged
BtuPerWatt_Typo == Dec(3142, 3)

BtuPerWatt == Dec(3412, 3)

\* line 52
absorptance_ref == FSub(FromInt(1), sr_ref)

\* a variant of absorptance_new without the complement
absorptance_new_NoComplement(in) == in.sr

\* line 53
absorptance_new(in) == FSub(FromInt(1), in.sr)

\* a variant of DeltaQ scaled by the emissivity
DeltaQ_WithEmissivity(in) ==
    FMul(FMul(FMul(FSub(absorptance_ref, absorptance_new(in)), in.emissivity),
              FromInt(in.solar_load)),
         FromInt(in.roof_area))

\* a variant of DeltaQ with + for the last *
DeltaQ_AreaAdded(in) ==
    FAdd(FMul(FSub(absorptance_ref, absorptance_new(in)), FromInt(in.solar_load)),
         FromInt(in.roof_area))

\* a variant of DeltaQ with the solar load taken per whole month
DeltaQ_LoadPerMonth(in) ==
    FMul(FMul(FSub(absorptance_ref, absorptance_new(in)),
              FromInt(12 * (in.solar_load \div 12))),
         FromInt(in.roof_area))

\* line 56
DeltaQ(in) ==
    FMul(FMul(FSub(absorptance_ref, absorptance_new(in)), FromInt(in.solar_load)),
         FromInt(in.roof_area))

\* a variant of Cop with the ratio inverted
Cop_Inverted(in) == FDiv(BtuPerWatt, FromInt(in.eer))

\* eer / 3.412, the divisor of line 57
Cop(in) == FDiv(FromInt(in.eer), BtuPerWatt)

\* line 57, dq being deltaQ
AnnualKwh(dq, in) == FDiv(FMul(dq, in.f_cool), Cop(in))

\* line 58
AnnualCost(kwh, in) == FMul(kwh, in.elec_price)

\* line 59
AnnualCo2(kwh, in) == FMul(kwh, in.co2_factor)

\* a variant of Years: np.arange(20)
Years_FromZero == [i \in 1..20 |-> i - 1]

\* np.arange(1, 21)
Years == [i \in 1..20 |-> i]

\* the int64 years as the float64 values the products are taken with
YearsAsFloat(ys) == [i \in 1..Len(ys) |-> FromInt(ys[i])]

\* annual * years, element by element
Cum(annual, yf) == [i \in 1..Len(yf) |-> FMul(annual, yf[i])]

\* "{x:,.0f}" of the three st.metric calls
Metrics(kwh, cost, co2) ==
    [kwh |-> FRoundInt(kwh), cost |-> FRoundInt(cost), co2 |-> FRoundInt(co2)]

\* lines 62-70: the projection and the metrics
Cumulated(dq, kwh, cost, co2, ys, yf) ==
    [status |-> "ok", deltaQ |-> dq,
     annual_kwh |-> kwh, annual_cost |-> cost, annual_co2 |-> co2,
     years |-> ys,
     cum_kwh |-> Cum(kwh, yf), cum_cost |-> Cum(cost, yf), cum_co2 |-> Cum(co2, yf),
     metrics |-> Metrics(kwh, cost, co2)]

\* line 61 on
Projection(dq, kwh, cost, co2, ys) ==
    Cumulated(dq, kwh, cost, co2, ys, YearsAsFloat(ys))

\* lines 58-59
Annuals(dq, kwh, in) ==
    Projection(dq, kwh, AnnualCost(kwh, in), AnnualCo2(kwh, in), Years)

\* the script stopped at line 57 by the division: no later name is bound
Raised(dq) ==
    [status |-> "ZeroDivisionError", deltaQ |-> dq,
     annual_kwh |-> Unset, annual_cost |-> Unset, annual_co2 |-> Unset,
     years |-> <<>>, cum_kwh |-> <<>>, cum_cost |-> <<>>, cum_co2 |-> <<>>,
     metrics |-> [kwh |-> 0, cost |-> 0, co2 |-> 0]]

\* line 57 on; eer / 3.412 is 0.0 for eer = 0 and for no other int, and
\* dividing by 0.0 raises
Electrical(dq, in) ==
    IF in.eer = 0 THEN Raised(dq) ELSE Annuals(dq, AnnualKwh(dq, in), in)

\* one run of the script from line 51 on: the names it binds, and how it ends
Script(in) == Electrical(DeltaQ(in), in)

(***************************************************************************)
(* State: the widgets' values, the names the last run of the script bound, *)
(* and the number of runs of the session.                                  *)
(***************************************************************************)
VARIABLES roof_area, roof_type, sr, emissivity, solar_load, ac_eff, eer,
          f_cool, elec_price, co2_factor, out, runs

widgets == <<roof_area, roof_type, sr, emissivity, solar_load, ac_eff, eer,
             f_cool, elec_price, co2_factor>>

vars == <<widgets, out, runs>>

\* the session's length: the first run and the reruns the widgets trigger
MaxRuns == 3

\* the inputs of the calculation in the current state
Inputs ==
    [roof_area |-> roof_area, sr |-> sr, emissivity |-> emissivity,
     solar_load |-> solar_load, eer |-> eer, f_cool |-> f_cool,
     elec_price |-> elec_price, co2_factor |-> co2_factor]

\* a run of the whole script with the widgets holding the given values
Rerun(area, type, srv, eps, load, ac, f, price, co2) ==
    /\ runs < MaxRuns
    /\ runs' = runs + 1
    /\ roof_area' = area
    /\ roof_type' = type
    /\ sr' = srv
    /\ emissivity' = eps
    /\ solar_load' = load
    /\ ac_eff' = ac
    /\ eer' = ac_map[ac]
    /\ f_cool' = f
    /\ elec_price' = price
    /\ co2_factor' = co2
    /\ out' = Script([roof_area |-> area, sr |-> srv, emissivity |-> eps,
                      solar_load |-> load, eer |-> ac_map[ac], f_cool |-> f,
                      elec_price |-> price, co2_factor |-> co2])

\* the page is opened: every widget holds its default and the script runs
Init ==
    /\ runs = 1
    /\ roof_area = RoofAreaDefault
    /\ roof_type = "Papa/Bitumiczny"
    /\ sr = defaults["Papa/Bitumiczny"].SR
    /\ emissivity = defaults["Papa/Bitumiczny"].eps
    /\ solar_load = SolarLoadDefault
    /\ ac_eff = "Stary system (EER~9)"
    /\ eer = ac_map["Stary system (EER~9)"]
    /\ f_cool = Dec(10, 1)
    /\ elec_price = Dec(7, 1)
    /\ co2_factor = Dec(82, 2)
    /\ out = Script([roof_area |-> RoofAreaDefault,
                     sr |-> defaults["Papa/Bitumiczny"].SR,
                     emissivity |-> defaults["Papa/Bitumiczny"].eps,
                     solar_load |-> SolarLoadDefault,
                     eer |-> ac_map["Stary system (EER~9)"],
                     f_cool |-> Dec(10, 1), elec_price |-> Dec(7, 1),
                     co2_factor |-> Dec(82, 2)])

SetRoofArea ==
    \E v \in RoofAreaTyped :
        Rerun(NumberInputInt(v, RoofAreaMin, RoofAreaMax), roof_type, sr,
              emissivity, solar_load, ac_eff, f_cool, elec_price, co2_factor)

\* a widget without key is a new widget when its default value changes: the
\* SR and emissivity inputs start again from the material's defaults
SelectRoofType ==
    \E t \in RoofTypes :
        /\ t # roof_type
        /\ Rerun(roof_area, t,
                 IF defaults[t].SR = defaults[roof_type].SR THEN sr
                 ELSE defaults[t].SR,
                 IF defaults[t].eps = defaults[roof_type].eps THEN emissivity
                 ELSE defaults[t].eps,
                 solar_load, ac_eff, f_cool, elec_price, co2_factor)

SetSr ==
    \E v \in SrTyped :
        Rerun(roof_area, roof_type, NumberInput(v, Dec(0, 1), Dec(10, 1)),
              emissivity, solar_load, ac_eff, f_cool, elec_price, co2_factor)

SetEmissivity ==
    \E v \in EmissivityTyped :
        Rerun(roof_area, roof_type, sr, NumberInput(v, Dec(0, 1), Dec(10, 1)),
              solar_load, ac_eff, f_cool, elec_price, co2_factor)

SetSolarLoad ==
    \E v \in SolarLoadTyped :
        Rerun(roof_area, roof_type, sr, emissivity,
              NumberInputInt(v, SolarLoadMin, SolarLoadMax), ac_eff, f_cool,
              elec_price, co2_factor)

SelectAcEff ==
    \E l \in AcLabels :
        /\ l # ac_eff
        /\ Rerun(roof_area, roof_type, sr, emissivity, solar_load, l, f_cool,
                 elec_price, co2_factor)

SlideFCool ==
    \E v \in FCoolValues :
        Rerun(roof_area, roof_type, sr, emissivity, solar_load, ac_eff, v,
              elec_price, co2_factor)

SetElecPrice ==
    \E v \in ElecPriceTyped :
        Rerun(roof_area, roof_type, sr, emissivity, solar_load, ac_eff, f_cool,
              NumberInput(v, Dec(2, 1), Dec(20, 1)), co2_factor)

SetCo2Factor ==
    \E v \in Co2FactorTyped :
        Rerun(roof_area, roof_type, sr, emissivity, solar_load, ac_eff, f_cool,
              elec_price, NumberInput(v, Dec(1, 1), Dec(15, 1)))

Next ==
    \/ SetRoofArea
    \/ SelectRoofType
    \/ SetSr
    \/ SetEmissivity
    \/ SetSolarLoad
    \/ SelectAcEff
    \/ SlideFCool
    \/ SetElecPrice
    \/ SetCo2Factor

Spec == Init /\ [][Next]_vars

(***************************************************************************)
(* The calculation taken alone, called with any input that satisfies the   *)
(* preconditions stated for it: positive area, solar load and EER, a       *)
(* cooling-load fraction in [0, 1], positive price and CO2 factor.         *)
(***************************************************************************)
PreRoofArea == {1, 1000}
PreSr ==
    {Dec(0, 2), Dec(4, 2), FromDec(<<4,9,9,9,9,9,9,9,9,9,9,9,9,9,9,9,6>>, 18),
     Dec(5, 2), Dec(10, 2)}
PreSolarLoad == {1, 1248}
PreEer == {1, 11}
PreFCool == {Dec(0, 1), Dec(1, 1), Dec(10, 1)}

\* no run yet
Pending ==
    [status |-> "pending", deltaQ |-> Unset,
     annual_kwh |-> Unset, annual_cost |-> Unset, annual_co2 |-> Unset,
     years |-> <<>>, cum_kwh |-> <<>>, cum_cost |-> <<>>, cum_co2 |-> <<>>,
     metrics |-> [kwh |-> 0, cost |-> 0, co2 |-> 0]]

InitPre ==
    /\ runs = 0
    /\ roof_area \in PreRoofArea
    /\ roof_type = "Papa/Bitumiczny"
    /\ sr \in PreSr
    /\ emissivity = Dec(90, 2)
    /\ solar_load \in PreSolarLoad
    /\ ac_eff = "Standardowy (EER~11)"
    /\ eer \in PreEer
    /\ f_cool \in PreFCool
    /\ elec_price = Dec(7, 1)
    /\ co2_factor = Dec(82, 2)
    /\ out = Pending

\* lines 51-70 on the given input
Compute ==
    /\ runs = 0
    /\ runs' = 1
    /\ out' = Script(Inputs)
    /\ UNCHANGED widgets

SpecPre == InitPre /\ [][Compute]_vars

(***************************************************************************)
(* Properties.                                                             *)
(***************************************************************************)
\* the calculation's input in the current state, with one field replaced
WithEer(e) == [Inputs EXCEPT !.eer = e]
WithEmissivity(e) == [Inputs EXCEPT !.emissivity = e]
WithRoofArea(a) == [Inputs EXCEPT !.roof_area = a]
WithSolarLoad(h) == [Inputs EXCEPT !.solar_load = h]

\* the four figures lines 56-59 give for the input in
FiguresFromKwh(dq, kwh, in) == <<dq, kwh, AnnualCost(kwh, in), AnnualCo2(kwh, in)>>

FiguresFromDeltaQ(dq, in) == FiguresFromKwh(dq, AnnualKwh(dq, in), in)

Figures(in) == FiguresFromDeltaQ(DeltaQ(in), in)

OutFigures == <<out.deltaQ, out.annual_kwh, out.annual_cost, out.annual_co2>>

Twice(x) == FMul(FromInt(2), x)

IsNegative(x) == FLt(x, FromInt(0))

\* x between the decimal numbers lo and hi
Within(x, lo, hi) == FLe(lo, x) /\ FLe(x, hi)

\* C1: the projection has exactly 20 entries, for the years 1, 2, ..., 20 in
\* this order, and the cumulative energy, cost and CO2 of year y are the
\* annual figure times y, with no other term.
C1_ProjectionIsAnnualTimesYear ==
    /\ Len(out.years) = 20
    /\ Len(out.cum_kwh) = 20 /\ Len(out.cum_cost) = 20 /\ Len(out.cum_co2) = 20
    /\ \A y \in 1..20 :
        /\ out.years[y] = y
        /\ out.cum_kwh[y] = FMul(out.annual_kwh, FromInt(y))
        /\ out.cum_cost[y] = FMul(out.annual_cost, FromInt(y))
        /\ out.cum_co2[y] = FMul(out.annual_co2, FromInt(y))

C1_Witness ==
    /\ runs > 1
    /\ out.status = "ok"
    /\ ~FIsZero(out.annual_kwh)
    /\ out.cum_kwh[2] = Twice(out.annual_kwh)
    /\ FAbsLt(out.cum_kwh[19], out.cum_kwh[20])

\* C2: when the proposed solar reflectance is the reference roof's 0.05,
\* deltaQ is 0 and the three annual figures are 0, whatever the other inputs.
C2_IdentityAtReference ==
    FEq(sr, Dec(5, 2)) =>
        /\ out.status = "ok"
        /\ FIsZero(out.deltaQ)
        /\ FIsZero(out.annual_kwh)
        /\ FIsZero(out.annual_cost)
        /\ FIsZero(out.annual_co2)

C2_Witness ==
    /\ runs > 1
    /\ FEq(sr, Dec(5, 2))
    /\ roof_area # RoofAreaDefault
    /\ FIsZero(out.annual_kwh)

C4_LargerEerSmallerMagnitude ==
    \A e \in {9, 11, 13} :
        (e > eer /\ ~FIsZero(out.deltaQ)) =>
            FAbsLt(Figures(WithEer(e))[2], out.annual_kwh)

C4_Witness ==
    /\ runs > 1
    /\ eer = 11
    /\ ~FIsZero(out.deltaQ)
    /\ FAbsLt(Figures(WithEer(13))[2], out.annual_kwh)

\* C5: a run that differs only in the emissivity gives the same deltaQ, the
\* same annual figures and the same projection.
C5_EmissivityIsNotUsed ==
    \A e \in {Dec(0, 2), Dec(100, 2)} :
        Script(WithEmissivity(e)) = out

C5_Witness ==
    /\ runs > 1
    /\ FIsZero(emissivity)
    /\ ~FIsZero(out.deltaQ)
    /\ Script(WithEmissivity(Dec(100, 2))) = out

\* C6: the EER that reaches the division is 9, 11 or 13, the divisor
\* eer / 3.412 is not 0, the run ends normally, and the three annual figures
\* and the 20 entries of each projection are numbers.
C6_NoFailure ==
    /\ eer \in {9, 11, 13}
    /\ ~FIsZero(Cop(Inputs))
    /\ out.status = "ok"
    /\ IsFloat(out.deltaQ)
    /\ IsFloat(out.annual_kwh) /\ IsFloat(out.annual_cost) /\ IsFloat(out.annual_co2)
    /\ Len(out.cum_kwh) = 20 /\ Len(out.cum_cost) = 20 /\ Len(out.cum_co2) = 20
    /\ \A y \in 1..20 :
        IsFloat(out.cum_kwh[y]) /\ IsFloat(out.cum_cost[y]) /\ IsFloat(out.cum_co2[y])

C6_Witness ==
    /\ runs > 1
    /\ eer = 13
    /\ out.status = "ok"
    /\ IsNegative(out.annual_kwh)
    /\ IsNegative(out.cum_co2[20])

\* C7: with twice the roof area and nothing else changed, deltaQ and the
\* three annual figures are exactly twice what they were.
C7_LinearInRoofArea ==
    Figures(WithRoofArea(2 * roof_area)) =
        <<Twice(out.deltaQ), Twice(out.annual_kwh), Twice(out.annual_cost),
          Twice(out.annual_co2)>>

C7_Witness ==
    /\ runs > 1
    /\ roof_area = 2000
    /\ ~FIsZero(out.deltaQ)
    /\ Figures(WithRoofArea(1000)) # OutFigures

\* C8: with twice the annual solar load and nothing else changed, deltaQ and
\* the three annual figures are exactly twice what they were.
C8_LinearInSolarLoad ==
    Figures(WithSolarLoad(2 * solar_load)) =
        <<Twice(out.deltaQ), Twice(out.annual_kwh), Twice(out.annual_cost),
          Twice(out.annual_co2)>>

C8_Witness ==
    /\ runs > 1
    /\ solar_load = SolarLoadMin
    /\ ~FIsZero(out.deltaQ)
    /\ Figures(WithSolarLoad(2 * SolarLoadMin)) # OutFigures

\* the inputs of the concrete scenario
Scenario ==
    /\ roof_area = 1000
    /\ sr = Dec(10, 2)
    /\ solar_load = 1248
    /\ eer = 11
    /\ f_cool = Dec(10, 1)
    /\ elec_price = Dec(7, 1)
    /\ co2_factor = Dec(82, 2)

\* x rounded to the nearest hundred
NearestHundred(x) == 100 * FRoundInt(FDiv(x, FromInt(100)))

ScenarioRounded ==
    /\ FRoundInt(out.annual_kwh) = 19355
    /\ FRoundInt(out.annual_cost) = 13549
    /\ FRoundInt(out.annual_co2) = 15871
    /\ out.metrics = [kwh |-> 19355, cost |-> 13549, co2 |-> 15871]
    /\ NearestHundred(out.cum_kwh[20]) = 387100

\* C9 as stated: in the scenario deltaQ is 62400, and the annual energy,
\* cost and CO2 round to 19355, 13549 and 15871, the year-20 energy to 387,100.
C9_Scenario ==
    Scenario => (out.deltaQ = FromInt(62400) /\ ScenarioRounded)

\* C9 as amended: in the scenario deltaQ is 62400 when rounded to the nearest
\* unit (the float is 62399.99999999992), and the other figures are as stated.
C9_ScenarioAmended ==
    Scenario =>
        /\ FRoundInt(out.deltaQ) = 62400
        /\ out.deltaQ = FromDec(<<6,2,3,9,9,9,9,9,9,9,9,9,9,9,9,2>>, 11)
        /\ ScenarioRounded

C9_Witness == Scenario /\ runs > 1 /\ out.status = "ok"

\* C10: the widgets hand the calculation a roof area in 50..50000, a solar
\* reflectance and an emissivity in [0, 1], a solar load in 500..2500, an EER
\* among 9, 11, 13, a cooling-load fraction in [0.1, 1.0], a price in
\* [0.2, 2.0] and a CO2 factor in [0.1, 1.5], and every material's preset
\* reflectance and emissivity are in [0, 1].
C10_InputsInRange ==
    /\ roof_area \in 50..50000
    /\ Within(sr, Dec(0, 1), Dec(10, 1))
    /\ Within(emissivity, Dec(0, 1), Dec(10, 1))
    /\ solar_load \in 500..2500
    /\ eer \in {9, 11, 13}
    /\ Within(f_cool, Dec(1, 1), Dec(10, 1))
    /\ Within(elec_price, Dec(2, 1), Dec(20, 1))
    /\ Within(co2_factor, Dec(1, 1), Dec(15, 1))
    /\ \A t \in RoofTypes :
        /\ Within(defaults[t].SR, Dec(0, 1), Dec(10, 1))
        /\ Within(defaults[t].eps, Dec(0, 1), Dec(10, 1))

C10_Witness ==
    /\ runs > 2
    /\ roof_area = 50000
    /\ sr = Dec(10, 1)
    /\ roof_type = "Papa/Bitumiczny"

=============================================================================
